---- MODULE Spec2Model ----
(***************************************************************************)
(* Model of the clipboard-history daemon "repeat".                         *)
(*                                                                         *)
(* History store (src/db.rs): a ring of clips behind a mutex, an atomic    *)
(* start index and an optional selection.  Every public method is one      *)
(* action; its arguments and its result are recorded in the call record    *)
(* variables (op, argClip, argIdx, resIdx, resClip, resBool, srch) so that *)
(* properties can speak about what a call returned.  lastIdx, run and      *)
(* selBy are history variables: they record what was called before and     *)
(* never influence the store.                                              *)
(*                                                                         *)
(* Selection engine (src/clipboard.rs): the table of outstanding           *)
(* conversions and the handler of X11 events, together with the part of    *)
(* the X server it talks to: selection owners, the properties of the       *)
(* getter window, the conversions a client has still to answer and the     *)
(* queue of events on their way to the daemon.  The server executes every  *)
(* request it is sent.  ev and xlog are call records (the event last       *)
(* handled and the requests its handler issued, in order); due is a        *)
(* history variable.                                                       *)
(*                                                                         *)
(* Control plane (src/rpc.rs, src/main.rs) and picker (src/ui/window.rs):  *)
(* the channel of messages between the RPC server and the event loop, the  *)
(* Option<Window> of the event loop and the window that has the input      *)
(* focus.                                                                  *)
(***************************************************************************)
EXTENDS Integers, Sequences, FiniteSets, TLC

\* ---------------------------------------------------------------- bounds

\* db.rs:7 sets MAX_CLIPS to 100; the model keeps the ring small so that
\* eviction happens within a few adds.
MAX_CLIPS == 3

\* add_clip may evict while start_idx is below MaxStart (start_idx is an
\* unbounded counter in the program).
MaxStart == 2

\* ----------------------------------------------------------------- data

\* Clip texts are drawn from the pieces of one word, which gives texts that
\* contain one another ("a" in "ab" in "aba") and texts that do not
\* ("ab" and "ba", "a" and "b").
Word == <<"a", "b", "a">>

\* ClipContents::Text(String): a text is a sequence of characters.
Texts == {SubSeq(Word, i, j) : i \in 1..Len(Word), j \in 1..Len(Word)} \ {<<>>}

\* enum Source
Source == {"Primary", "Secondary", "Clipboard"}

\* struct Clip { source, contents }
Clip == [source : Source, contents : Texts]

\* The clips passed to add_clip and select_clip: every text as a PRIMARY
\* clip, and one of them also as a CLIPBOARD clip, so that two clips with
\* equal contents need not be equal.
InputClips ==
    {c \in Clip : c.source = "Primary"
                  \/ (c.source = "Clipboard" /\ c.contents = <<"a">>)}

\* Option<T>: None is the empty sequence, Some(x) the one-element sequence.
None == <<>>

Some(x) == <<x>>

\* String::contains: their is a contiguous substring of my (every string
\* contains the empty string and itself).
StrContains(my, their) ==
    \E i \in 0..(Len(my) - Len(their)) :
        SubSeq(my, i + 1, i + Len(their)) = their

\* ClipContents::contains
ContentsContains(my, their) == StrContains(my, their)

\* Clip::contains
ClipContains(self, other) == ContentsContains(self.contents, other.contents)

\* ------------------------------------------------------------- X11 data

\* clipboard.rs:14
SELECTIONS == <<"PRIMARY", "SECONDARY", "CLIPBOARD">>

Selections == {SELECTIONS[k] : k \in 1..Len(SELECTIONS)}

\* The property atoms format!("REPEAT_{}", num) names (clipboard.rs:158),
\* for num = 0, 1, ...
RepeatAtoms == <<"REPEAT_0", "REPEAT_1", "REPEAT_2", "REPEAT_3", "REPEAT_4">>

\* Atoms are written by name; NoAtom is the atom 0 (None).
NoAtom == "None"

\* The number the server has given an atom (InternAtom, GetAtomName): the
\* predefined atoms have their protocol numbers, the others numbers above
\* one byte.
AtomId(name) ==
    CASE name = NoAtom -> 0
      [] name = "PRIMARY" -> 1
      [] name = "SECONDARY" -> 2
      [] name = "ATOM" -> 4
      [] name = "STRING" -> 31
      [] name = "TARGETS" -> 301
      [] name = "UTF8_STRING" -> 66002
      [] name = "image/png" -> 419
      [] OTHER -> 500

AtomNames == {NoAtom, "PRIMARY", "SECONDARY", "ATOM", "STRING", "TARGETS",
              "UTF8_STRING", "image/png"}

\* The four bytes of v, highest first.
ToBeBytes(v) == [k \in 1..4 |-> (v \div (256 ^ (4 - k))) % 256]

\* u32::to_le_bytes: the four bytes of v, lowest first.
ToLeBytes(v) == [k \in 1..4 |-> (v \div (256 ^ (k - 1))) % 256]

\* i32::from_le_bytes of a chunk of four bytes (all values here are below
\* 2^31).
FromLeBytes(b) == b[1] + 256 * b[2] + 65536 * b[3] + 16777216 * b[4]

\* The bytes of a list of atoms, as clipboard.rs:264-268 builds them.
RECURSIVE AtomBytes(_)
AtomBytes(atoms) ==
    IF atoms = <<>> THEN <<>>
    ELSE ToLeBytes(AtomId(Head(atoms))) \o AtomBytes(Tail(atoms))

\* The characters of the texts of the model and their bytes in UTF-8.
CharCodes ==
    {<<"a", 97>>, <<"b", 98>>, <<"c", 99>>, <<"d", 100>>, <<"e", 101>>,
     <<"i", 105>>, <<"l", 108>>, <<"m", 109>>, <<"n", 110>>, <<"o", 111>>,
     <<"p", 112>>, <<"r", 114>>, <<"s", 115>>, <<"y", 121>>, <<"/", 47>>}

\* Vec::from(String): the byte of a character.
ByteOf(ch) == (CHOOSE p \in CharCodes : p[1] = ch)[2]

\* String::from_utf8_lossy: the character of a byte, U+FFFD (written "?")
\* for a byte that is no text.
CharOf(byte) ==
    IF \E p \in CharCodes : p[2] = byte
    THEN (CHOOSE p \in CharCodes : p[2] = byte)[1]
    ELSE "?"

\* The bytes of a text without its first character.
BytesOfTail(text) == [k \in 1..(Len(text) - 1) |-> ByteOf(text[k + 1])]

\* Vec::from(String): the bytes of a text.
Bytes(text) == [k \in 1..Len(text) |-> ByteOf(text[k])]

FromUtf8Lossy(bytes) == [k \in 1..Len(bytes) |-> CharOf(bytes[k])]

\* An X11 event as the daemon receives or sends it; the fields an event
\* type does not have hold NoAtom.
XEvent(type, requestor, owner, sel, target, property) ==
    [type |-> type, requestor |-> requestor, owner |-> owner,
     selection |-> sel, target |-> target, property |-> property,
     detail |-> 0, state |-> "None", sym |-> "None"]

NoEvent == XEvent("None", NoAtom, NoAtom, NoAtom, NoAtom, NoAtom)

\* xproto::SelectionNotifyEvent
SelectionNotify(requestor, sel, target, property) ==
    XEvent("SelectionNotify", requestor, NoAtom, sel, target, property)

\* xproto::SelectionRequestEvent
SelectionRequest(requestor, sel, target, property) ==
    XEvent("SelectionRequest", requestor, "setter", sel, target, property)

\* xfixes::SelectionNotifyEvent
XfixesSelectionNotify(sel, owner) ==
    XEvent("XfixesSelectionNotify", NoAtom, owner, sel, NoAtom, NoAtom)

\* A request the daemon sends to the X server; the fields a request does
\* not have hold NoAtom, 0 or nothing.
XRequest(req, window, sel, target, property, type, format, nitems, data, event) ==
    [req |-> req, window |-> window, selection |-> sel, target |-> target,
     property |-> property, type |-> type, format |-> format,
     nitems |-> nitems, data |-> data, event |-> event]

DeleteProperty(window, property) ==
    XRequest("DeleteProperty", window, NoAtom, NoAtom, property, NoAtom, 0, 0,
             <<>>, NoEvent)

ConvertSelection(requestor, sel, target, property) ==
    XRequest("ConvertSelection", requestor, sel, target, property, NoAtom, 0,
             0, <<>>, NoEvent)

GetProperty(delete, window, property) ==
    XRequest(IF delete THEN "GetPropertyDelete" ELSE "GetProperty", window,
             NoAtom, NoAtom, property, NoAtom, 0, 0, <<>>, NoEvent)

\* change_property_checked(PropMode::REPLACE, ...)
ChangeProperty(window, property, type, format, nitems, data) ==
    XRequest("ChangePropertyReplace", window, NoAtom, NoAtom, property, type,
             format, nitems, data, NoEvent)

SetSelectionOwner(ownr, sel) ==
    XRequest("SetSelectionOwner", ownr, sel, NoAtom, NoAtom, NoAtom, 0, 0,
             <<>>, NoEvent)

SendEvent(destination, event) ==
    XRequest("SendEvent", destination, NoAtom, NoAtom, NoAtom, NoAtom, 0, 0,
             <<>>, event)

VARIABLES
    clips,        \* Database.clips: VecDeque<Clip>, front first
    selection,    \* Database.selection: Option<Clip>
    start_idx,    \* Database.start_idx
    op,           \* the last method called
    argClip,      \* its Clip argument, if any
    argIdx,       \* its index argument, if any
    resIdx,       \* Option<usize> returned by add_clip
    resClip,      \* Option<Clip> returned by at / selection
    resBool,      \* bool returned by select
    srch,         \* Some(pattern, max, scored matches, Vec<Clip> returned)
                  \* of the search just made, else None
    lastIdx,      \* history: the last Some(i) an add_clip returned, if any
    run,          \* history: Some(texts added so far, in order) while they
                  \* are pairwise distinct and none contains its
                  \* predecessor; None once an add broke that
    selBy,        \* history: the method that last wrote selection
    get_states,   \* Clipboard.get_states: HashMap<Atom, GetState>, as the
                  \* set of its entries
    getter_props, \* server: the properties of the getter window
    owner,        \* server: the owner of each selection
    offer,        \* what the client that owns a selection converts it to
    converts,     \* ConvertSelection requests a client has not answered
    xq,           \* X11 events on their way to the daemon, oldest first
    ev,           \* the event handle_event was last called with
    xlog,         \* the requests the last handler sent, in order
    err,          \* the last handler returned Err
    due,          \* history: per selection, the text of the client that
                  \* became its owner, until the engine has added that
                  \* text from a GetText entry and removed the entry
    verb,         \* the verb of the rpc::Manager last called
    chan,         \* the mpsc channel of rpc::Message, oldest first
    msg,          \* the message the event loop last received and the match
                  \* arm that took it
    pauseSeen,    \* history: the event loop received Pause and no Start
                  \* since
    window,       \* the event loop's Option<Window>
    focus,        \* server: the window that has the input focus
    wev,          \* the event Window::handle_event was last called with
    action,       \* what it returned
    selecting,    \* Some(what at(idx) returned) to a task that is inside
                  \* select, between its two critical sections; else None
    admitted      \* history: the clips add_clip has pushed onto the ring

dbVars == <<clips, selection, start_idx, op, argClip, argIdx, resIdx, resClip,
            resBool, srch, lastIdx, run, selBy>>

xVars == <<get_states, getter_props, owner, offer, converts, xq, ev, xlog, err,
          due>>

ctlVars == <<verb, chan, msg, pauseSeen>>

uiVars == <<window, focus, wev, action>>

auxVars == <<selecting, admitted>>

vars == <<clips, selection, start_idx, op, argClip, argIdx, resIdx, resClip,
          resBool, srch, lastIdx, run, selBy, get_states, getter_props,
          owner, offer, converts, xq, ev, xlog, err, due, verb, chan, msg,
          pauseSeen, window, focus, wev, action, selecting, admitted>>

\* What a client that owns a selection converts it to: the targets it
\* lists and its text.
Offer(targets, text) == [targets |-> targets, text |-> text]

NoOffer == Offer(<<>>, <<>>)

\* The message the event loop took from the channel and the arm of its
\* match that ran.
Received(message, arm) == [message |-> message, arm |-> arm]

NoMessage == Received("None", "None")

\* No Clipboard has been constructed: nothing is in flight and no selection
\* has an owner.
NoClipboard ==
    /\ get_states = {}
    /\ getter_props = {}
    /\ owner = [s \in Selections |-> "none"]
    /\ offer = [s \in Selections |-> NoOffer]
    /\ converts = {}
    /\ xq = <<>>
    /\ ev = NoEvent
    /\ xlog = <<>>
    /\ err = FALSE
    /\ due = [s \in Selections |-> None]

\* main.rs:91-93: no picker window, an empty channel.
NoWindow ==
    /\ verb = "None"
    /\ chan = <<>>
    /\ msg = NoMessage
    /\ pauseSeen = FALSE
    /\ window = None
    /\ focus = "client"
    /\ wev = NoEvent
    /\ action = "None"

\* Database::new
Init ==
    /\ clips = <<>>
    /\ selection = None
    /\ start_idx = 0
    /\ op = "new"
    /\ argClip = None
    /\ argIdx = None
    /\ resIdx = None
    /\ resClip = None
    /\ resBool = FALSE
    /\ srch = None
    /\ lastIdx = None
    /\ run = Some(<<>>)
    /\ selBy = "new"
    /\ selecting = None
    /\ admitted = {}
    /\ NoClipboard
    /\ NoWindow

\* -------------------------------------------------------------- add_clip

\* The new clip contains the latest clip or is contained in it.
ReplaceEitherWay(cl, clip) ==
    cl # <<>> /\ (ClipContains(clip, cl[Len(cl)]) \/ ClipContains(cl[Len(cl)], clip))

\* db.rs:28-31: the new clip is "a greater version" of the latest clip.
Replace(cl, clip) == cl # <<>> /\ ClipContains(clip, cl[Len(cl)])

\* db.rs:32-34: the ring after the optional pop_back.
AfterReplace(cl, clip) ==
    IF Replace(cl, clip) THEN SubSeq(cl, 1, Len(cl) - 1) ELSE cl

\* The duplicate check left out.
AlreadyInNever(cl, clip) == FALSE

\* db.rs:37: some clip of the ring has the same contents.
AlreadyIn(cl, clip) == \E k \in 1..Len(cl) : cl[k].contents = clip.contents

\* The eviction test off by one.
OverflowsLate(cl) == Len(cl) > MAX_CLIPS + 1

\* db.rs:42: the ring has outgrown MAX_CLIPS.
Overflows(cl) == Len(cl) > MAX_CLIPS

\* The index computed without the clips evicted so far.
IndexOfBackNoStart(cl, start) == Len(cl) - 1

\* db.rs:46: the logical index of the clip just pushed.
IndexOfBack(cl, start) == Len(cl) + start - 1

\* The history variable run after add_clip(clip).
RunAfter(clip) ==
    IF run = None THEN None
    ELSE LET r == run[1]
         IN  IF \/ \E k \in 1..Len(r) : r[k] = clip.contents
                \/ r # <<>> /\ StrContains(clip.contents, r[Len(r)])
             THEN None
             ELSE Some(Append(r, clip.contents))

AddClip(clip) ==
    LET popped == AfterReplace(clips, clip)
        pushed == Append(popped, clip)
    IN  /\ IF AlreadyIn(popped, clip)
           THEN /\ clips' = popped
                /\ start_idx' = start_idx
                /\ resIdx' = None
                /\ lastIdx' = lastIdx
           ELSE IF Overflows(pushed)
           THEN /\ start_idx < MaxStart
                /\ clips' = Tail(pushed)
                /\ start_idx' = start_idx + 1
                /\ resIdx' = Some(IndexOfBack(Tail(pushed), start_idx + 1))
                /\ lastIdx' = resIdx'
           ELSE /\ clips' = pushed
                /\ start_idx' = start_idx
                /\ resIdx' = Some(IndexOfBack(pushed, start_idx))
                /\ lastIdx' = resIdx'
        /\ op' = "add_clip"
        /\ argClip' = Some(clip)
        /\ argIdx' = None
        /\ resClip' = None
        /\ resBool' = FALSE
        /\ srch' = None
        /\ run' = RunAfter(clip)
        /\ UNCHANGED <<selection, selBy>>

\* ---------------------------------------------------- at, selection, select

\* The lower bound of the lookup off by one.
AtInOffByOne(cl, start, idx) ==
    IF idx <= start THEN None
    ELSE IF idx - start < Len(cl) THEN Some(cl[idx - start + 1])
    ELSE None

\* db.rs:53-63: Database::at on ring cl whose first clip has index start.
AtIn(cl, start, idx) ==
    IF idx < start THEN None
    ELSE IF idx - start < Len(cl) THEN Some(cl[idx - start + 1])
    ELSE None

At(idx) ==
    /\ op' = "at"
    /\ argIdx' = Some(idx)
    /\ argClip' = None
    /\ resClip' = AtIn(clips, start_idx, idx)
    /\ resIdx' = None
    /\ resBool' = FALSE
    /\ UNCHANGED <<clips, selection, start_idx, srch, lastIdx, run, selBy>>

\* The selection kept as a reference into the ring: gone once its clip is.
SelectionOfRing(sel, cl) ==
    IF sel # None /\ \E k \in 1..Len(cl) : cl[k] = sel[1] THEN sel ELSE None

\* db.rs:65-67: what Database::selection returns: the copy kept in the
\* selection field, whatever the ring holds.
SelectionOf(sel, cl) == sel

Selection ==
    /\ op' = "selection"
    /\ argIdx' = None
    /\ argClip' = None
    /\ resClip' = SelectionOf(selection, clips)
    /\ resIdx' = None
    /\ resBool' = FALSE
    /\ UNCHANGED <<clips, selection, start_idx, srch, lastIdx, run, selBy>>

\* db.rs:69-71
SelectClip(clip) ==
    /\ selection' = Some(clip)
    /\ op' = "select_clip"
    /\ argClip' = Some(clip)
    /\ argIdx' = None
    /\ resClip' = None
    /\ resIdx' = None
    /\ resBool' = FALSE
    /\ selBy' = "select_clip"
    /\ UNCHANGED <<clips, start_idx, srch, lastIdx, run>>

\* db.rs:74-80: the selection after select found `found` at the index.
SelectionAfterSelect(sel, found) == IF found = None THEN sel ELSE found

\* db.rs:73-81
Select(idx) ==
    LET found == AtIn(clips, start_idx, idx)
    IN  /\ selection' = SelectionAfterSelect(selection, found)
        /\ resBool' = (found # None)
        /\ op' = "select"
        /\ argIdx' = Some(idx)
        /\ argClip' = None
        /\ resClip' = None
        /\ resIdx' = None
        /\ selBy' = (IF found = None THEN selBy ELSE "select")
        /\ UNCHANGED <<clips, start_idx, srch, lastIdx, run>>

\* db.rs:74: the first critical section of select, self.at(idx) under the
\* lock of clips.  The lock is released when at returns; the task holds
\* the clip it found.
SelectAt(idx) ==
    /\ selecting = None
    /\ selecting' = Some([idx |-> idx, found |-> AtIn(clips, start_idx, idx)])
    /\ UNCHANGED <<dbVars, admitted>>

\* db.rs:75-80: the rest of select: with a clip found, the second critical
\* section, under the lock of selection, writes it.
SelectWrite ==
    /\ selecting # None
    /\ selection' = SelectionAfterSelect(selection, selecting[1].found)
    /\ resBool' = (selecting[1].found # None)
    /\ op' = "select"
    /\ argIdx' = Some(selecting[1].idx)
    /\ argClip' = None
    /\ resClip' = None
    /\ resIdx' = None
    /\ selBy' = (IF selecting[1].found = None THEN selBy ELSE "select")
    /\ selecting' = None
    /\ UNCHANGED <<clips, start_idx, srch, lastIdx, run, admitted>>

\* ----------------------------------------------------------------- search

\* fuzzy_matcher::clangd::fuzzy_match(content, pattern) is Some(score)
\* exactly when the characters of the pattern occur in the content in order
\* (not necessarily next to one another).
RECURSIVE IsSubsequence(_, _)
IsSubsequence(pattern, content) ==
    IF pattern = <<>> THEN TRUE
    ELSE IF content = <<>> THEN FALSE
    ELSE IF Head(pattern) = Head(content)
         THEN IsSubsequence(Tail(pattern), Tail(content))
         ELSE IsSubsequence(pattern, Tail(content))

\* The score of a match is the library's: an input of the model.  Two
\* scores, one of them negative, are enough to order any two matches either
\* way or to tie them.
Scores == {-1, 1}

\* The patterns searched for: "a" and "ab" occur in several texts, "aa"
\* occurs only as the scattered characters of "aba".
Patterns == {<<"a">>, <<"a", "b">>, <<"a", "a">>}

\* db.rs:85-94: the (position, score) pairs of the clips that match, in
\* ring order; positions count from 0.  sc[k] is the score fuzzy_match gives
\* the k-th clip of the ring.
RECURSIVE MatchedClips(_, _, _, _)
MatchedClips(cl, pattern, sc, k) ==
    IF k > Len(cl) THEN <<>>
    ELSE IF IsSubsequence(pattern, cl[k].contents)
         THEN <<(<<k - 1, sc[k]>>)>> \o MatchedClips(cl, pattern, sc, k + 1)
         ELSE MatchedClips(cl, pattern, sc, k + 1)

\* x put into the sorted sequence s behind every element whose score is not
\* greater than its own.
RECURSIVE InsertByScore(_, _)
InsertByScore(x, s) ==
    IF s = <<>> THEN <<x>>
    ELSE IF Head(s)[2] <= x[2] THEN <<Head(s)>> \o InsertByScore(x, Tail(s))
    ELSE <<x>> \o s

\* db.rs:95: sort_by_key on the score; the sort is stable, so matches with
\* equal scores keep their ring order.
RECURSIVE SortByScore(_)
SortByScore(s) ==
    IF s = <<>> THEN <<>>
    ELSE InsertByScore(s[Len(s)], SortByScore(SubSeq(s, 1, Len(s) - 1)))

\* Left as it is where db.rs:96 reverses.
NotReversed(s) == s

\* db.rs:96: .rev()
Reversed(s) == [k \in 1..Len(s) |-> s[Len(s) + 1 - k]]

\* Nothing cut off where db.rs:96 takes max.
TakeAll(s, max) == s

\* db.rs:96: .take(max)
Take(s, max) == SubSeq(s, 1, IF max < Len(s) THEN max ELSE Len(s))

\* db.rs:95-98: the clips returned for the scored matches.
SearchResult(cl, matches, max) ==
    LET picked == Take(Reversed(SortByScore(matches)), max)
    IN  [k \in 1..Len(picked) |-> cl[picked[k][1] + 1]]

\* The values of max passed to search: none, one, and room for every clip.
SearchMax == {0, 1, MAX_CLIPS}

\* The positions of the ring whose clip fuzzy_match gives a score.
Matching(cl, pattern) ==
    {k \in 1..Len(cl) : IsSubsequence(pattern, cl[k].contents)}

\* db.rs:83-99
Search(pattern, max) ==
    \E sc \in [Matching(clips, pattern) -> Scores] :
        LET matches == MatchedClips(clips, pattern, sc, 1)
        IN  /\ srch' = Some([pattern |-> pattern, max |-> max,
                             matched |-> matches,
                             result |-> SearchResult(clips, matches, max)])
            /\ op' = "search"
            /\ argClip' = None
            /\ argIdx' = None
            /\ resIdx' = None
            /\ resClip' = None
            /\ resBool' = FALSE
            /\ UNCHANGED <<clips, selection, start_idx, lastIdx, run, selBy>>

\* ------------------------------------------------------------------ specs

\* The indices passed to at and select: every index a clip has or had, and
\* the first one beyond the back of the ring.
Indices == 0..(start_idx + Len(clips))

Next ==
    \/ \E c \in InputClips : AddClip(c) /\ UNCHANGED <<xVars, ctlVars, uiVars, auxVars>>
    \/ \E i \in Indices : At(i) /\ UNCHANGED <<xVars, ctlVars, uiVars, auxVars>>
    \/ Selection /\ UNCHANGED <<xVars, ctlVars, uiVars, auxVars>>
    \/ \E c \in InputClips : SelectClip(c) /\ UNCHANGED <<xVars, ctlVars, uiVars, auxVars>>
    \/ \E i \in Indices : Select(i) /\ UNCHANGED <<xVars, ctlVars, uiVars, auxVars>>

\* The history store under add_clip, at, selection, select_clip and select.
Spec == Init /\ [][Next]_vars

NextSearch ==
    \/ \E c \in InputClips : AddClip(c) /\ UNCHANGED <<xVars, ctlVars, uiVars, auxVars>>
    \/ \E p \in Patterns, m \in SearchMax :
          Search(p, m) /\ UNCHANGED <<xVars, ctlVars, uiVars, auxVars>>

\* The history store under add_clip and search.
SpecSearch == Init /\ [][NextSearch]_vars

\* The calls of the other tasks while one task is inside select.
TaskClips == {c \in InputClips : Len(c.contents) <= 2}

NextTasks ==
    \/ \E i \in Indices : SelectAt(i) /\ UNCHANGED <<xVars, ctlVars, uiVars>>
    \/ SelectWrite /\ UNCHANGED <<xVars, ctlVars, uiVars>>
    \/ \E c \in TaskClips :
          AddClip(c) /\ UNCHANGED <<xVars, ctlVars, uiVars, auxVars>>
    \/ \E c \in TaskClips :
          SelectClip(c) /\ UNCHANGED <<xVars, ctlVars, uiVars, auxVars>>
    \/ Selection /\ UNCHANGED <<xVars, ctlVars, uiVars, auxVars>>

\* The history store called by several tasks: one of them calls select,
\* whose two critical sections are two steps, the others call add_clip,
\* select_clip and selection.
SpecTasks == Init /\ [][NextTasks]_vars

\* ------------------------------------------------------ selection engine

\* The X11 events queued for the daemon by its environment are at most
\* MaxEvents at a time.
MaxEvents == 2

\* The keys of the outstanding-conversion table.
Keys(states) == {e.key : e \in states}

\* Some entry of the table, whatever its key.
LookupAny(states, key) ==
    IF states # {} THEN Some(CHOOSE e \in states : TRUE) ELSE None

\* HashMap::get
Lookup(states, key) ==
    IF key \in Keys(states) THEN Some(CHOOSE e \in states : e.key = key)
    ELSE None

\* HashMap::insert of GetTargets(property) or GetText(property) at key
\* property.
Insert(states, property, kind) ==
    {e \in states : e.key # property}
        \cup {[key |-> property, kind |-> kind, property |-> property]}

\* Every entry removed.
RemoveAll(states, key) == {}

\* HashMap::remove
Remove(states, key) == {e \in states : e.key # key}

\* get_free_getter_property: the first of REPEAT_0, REPEAT_1, ... that is
\* not a key of the table.
FreeProperty(states) ==
    RepeatAtoms[CHOOSE n \in 1..Len(RepeatAtoms) :
                    /\ RepeatAtoms[n] \notin Keys(states)
                    /\ \A m \in 1..(n - 1) : RepeatAtoms[m] \in Keys(states)]

\* Server: the value of a property of the getter window (empty when the
\* window has no such property), the properties without one of them and
\* with one of them replaced.
PropValue(props, property) ==
    IF \E q \in props : q.property = property
    THEN (CHOOSE q \in props : q.property = property).data
    ELSE <<>>

WithoutProp(props, property) == {q \in props : q.property # property}

WithProp(props, property, type, format, data) ==
    WithoutProp(props, property)
        \cup {[property |-> property, type |-> type, format |-> format,
               data |-> data]}

\* Server: ChangeProperty takes a property atom and a format of 8, 16 or
\* 32 and answers anything else with an error, which the `?` after a
\* checked request returns from the handler.
Rejected(r) ==
    r.req = "ChangePropertyReplace"
        /\ (r.property = NoAtom \/ r.format \notin {8, 16, 32})

\* What a handler has done so far: the table, the getter's properties, the
\* conversions clients have to answer, the events the server has queued
\* for the daemon, the requests sent and whether one of them failed.
\* fail is the number of the request the server or the connection will
\* fail in this call, 0 for none.
Work(states, props, conv) ==
    [states |-> states, props |-> props, conv |-> conv, out |-> <<>>,
     log |-> <<>>, err |-> FALSE, fail |-> 0]

\* Sends a request; `?` returns from the handler when the request fails,
\* so after a failed request nothing more is sent.  The work so far is
\* bound to w, so that it is computed once.
Send(st, r) ==
    CHOOSE sent \in
        {IF w.err THEN w
         ELSE LET failed == Rejected(r) \/ Len(w.log) + 1 = w.fail
              IN  [w EXCEPT
                     !.log = Append(@, r),
                     !.err = failed,
                     !.props = IF failed \/ r.window # "getter" THEN @
                               ELSE IF r.req = "ChangePropertyReplace"
                               THEN WithProp(@, r.property, r.type, r.format, r.data)
                               ELSE IF r.req \in {"DeleteProperty", "GetPropertyDelete"}
                               THEN WithoutProp(@, r.property)
                               ELSE @,
                     !.out = IF ~failed /\ r.req = "SendEvent" /\ r.window = "getter"
                             THEN Append(@, r.event) ELSE @]
         : w \in {st}} : TRUE

\* Server: ConvertSelection(getter, sel, target, property).  Without an
\* owner the server refuses with a SelectionNotify of property None; the
\* owner is otherwise sent a SelectionRequest, which is the daemon itself
\* when the setter owns the selection.
Converted(st, own, sel, target, property) ==
    [st EXCEPT
       !.conv = IF own[sel] = "client"
                THEN @ \cup {[selection |-> sel, target |-> target,
                              property |-> property]}
                ELSE @,
       !.out = CASE own[sel] = "none" ->
                      Append(@, SelectionNotify("getter", sel, target, NoAtom))
                 [] own[sel] = "setter" ->
                      Append(@, SelectionRequest("getter", sel, target, property))
                 [] OTHER -> @]

\* get_selection_property followed by the insert of get_targets or
\* fetch_string: a free property is deleted on the getter, the conversion
\* to it is requested and the transaction is entered in the table.
Transaction(st, own, sel, target, kind) ==
    CHOOSE entered \in
        {LET property == FreeProperty(w.states)
             sent == Send(Send(w, DeleteProperty("getter", property)),
                          ConvertSelection("getter", sel, target, property))
         IN  IF sent.err THEN sent
             ELSE [Converted(sent, own, sel, target, property) EXCEPT
                     !.states = Insert(@, property, kind)]
         : w \in {st}} : TRUE

\* The TARGETS conversion entered in the table as GetText.
GetTargetsAsText(st, own, sel) == Transaction(st, own, sel, "TARGETS", "GetText")

\* get_targets
GetTargets(st, own, sel) == Transaction(st, own, sel, "TARGETS", "GetTargets")

\* No conversion of the text is started.
FetchNothing(st, own, sel, target) == st

\* fetch_string
FetchString(st, own, sel, target) == Transaction(st, own, sel, target, "GetText")

\* fetch_initial: get_targets for each of SELECTIONS, in order.
RECURSIVE FetchInitial(_, _, _)
FetchInitial(st, own, k) ==
    IF k > Len(SELECTIONS) THEN st
    ELSE FetchInitial(GetTargets(st, own, SELECTIONS[k]), own, k + 1)

\* get_atom_name: the name of the atom with a number.
AtomName(id) == CHOOSE name \in AtomNames : AtomId(name) = id

\* clipboard.rs:343-355: the names of the atoms in a TARGETS reply, read in
\* chunks of four bytes; a shorter last chunk and the atom 0 are skipped.
RECURSIVE Properties(_)
Properties(value) ==
    IF Len(value) < 4 THEN <<>>
    ELSE LET atom == FromLeBytes(SubSeq(value, 1, 4))
             rest == Properties(SubSeq(value, 5, Len(value)))
         IN  IF atom = 0 THEN rest ELSE <<AtomName(atom)>> \o rest

\* Vec::contains
Contains(list, x) == \E k \in 1..Len(list) : list[k] = x

\* The handler's effect on the engine and on the server.
Done(st) ==
    \E w \in {st} :
        /\ get_states' = w.states
        /\ getter_props' = w.props
        /\ converts' = w.conv
        /\ xq' = Tail(xq) \o w.out
        /\ xlog' = w.log
        /\ err' = w.err

\* The work of a handler before its first request.
Begin == Work(get_states, getter_props, converts)

\* Every target but TARGETS answered with the text.
ServeAnyTarget(st, sr, sel) ==
    IF sr.target = "TARGETS"
    THEN IF sel = None
         THEN Send(st, ChangeProperty(sr.requestor, NoAtom, "ATOM", 0, 0, <<>>))
         ELSE Send(st, ChangeProperty(sr.requestor, sr.property, "ATOM", 32, 2,
                                      AtomBytes(<<"TARGETS", "UTF8_STRING">>)))
    ELSE LET str == IF sel = None THEN <<"n", "/", "a">> ELSE sel[1].contents
         IN  Send(st, ChangeProperty(sr.requestor, sr.property, "UTF8_STRING",
                                     8, Len(Bytes(str)), Bytes(str)))

\* clipboard.rs:238-304: the property a SelectionRequest is answered with.
Serve(st, sr, sel) ==
    IF sr.target = "TARGETS"
    THEN IF sel = None
         THEN Send(st, ChangeProperty(sr.requestor, NoAtom, "ATOM", 0, 0, <<>>))
         ELSE Send(st, ChangeProperty(sr.requestor, sr.property, "ATOM", 32, 2,
                                      AtomBytes(<<"TARGETS", "UTF8_STRING">>)))
    ELSE IF sr.target = "UTF8_STRING"
    THEN LET str == IF sel = None THEN <<"n", "/", "a">> ELSE sel[1].contents
         IN  Send(st, ChangeProperty(sr.requestor, sr.property, "UTF8_STRING",
                                     8, Len(Bytes(str)), Bytes(str)))
    ELSE st

\* handle_event, Event::SelectionRequest
OnSelectionRequest(b, sr) ==
    LET served == Serve(b, sr, selection)
        notify_event == SelectionNotify(sr.requestor, sr.selection, sr.target,
                                        sr.property)
    IN  /\ Done(Send(served, SendEvent(sr.requestor, notify_event)))
        /\ UNCHANGED <<dbVars, due>>

\* handle_event, Event::XfixesSelectionNotify
OnXfixesSelectionNotify(b, sn) ==
    /\ Done(IF sn.owner # "setter" THEN GetTargets(b, owner, sn.selection)
            ELSE b)
    /\ UNCHANGED <<dbVars, due>>

\* handle_event, Event::SelectionNotify with a GetTargets entry
OnTargets(b, sn, property) ==
    \E read \in {Send(Send(b, GetProperty(FALSE, "getter", property)),
                       DeleteProperty("getter", sn.property))} :
        LET properties == Properties(PropValue(getter_props, property))
            st == IF read.err THEN read
                  ELSE [read EXCEPT !.states = Remove(@, property)]
        IN  /\ Done(IF ~st.err /\ Contains(properties, "UTF8_STRING")
                    THEN FetchString(st, owner, sn.selection, "UTF8_STRING")
                    ELSE st)
            /\ UNCHANGED <<dbVars, due>>

\* handle_event, Event::SelectionNotify with a GetText entry
OnText(b, sn, property) ==
    \E read \in {Send(b, GetProperty(TRUE, sn.requestor, sn.property))} :
        LET value == FromUtf8Lossy(PropValue(getter_props, sn.property))
            st == [read EXCEPT !.states = Remove(@, property)]
        IN  IF read.err
            THEN Done(read) /\ UNCHANGED <<dbVars, due>>
            ELSE /\ AddClip([source |-> "Primary", contents |-> value])
                 /\ Done(st)
                 /\ due' = [due EXCEPT ![sn.selection] =
                                 IF @ = Some(value) /\ property \notin Keys(st.states)
                                 THEN None ELSE @]

\* handle_event, Event::SelectionNotify
OnSelectionNotify(b, sn) ==
    LET entry == Lookup(get_states, sn.property)
    IN  IF entry = None
        THEN Done(b) /\ UNCHANGED <<dbVars, due>>
        ELSE IF entry[1].kind = "GetTargets"
        THEN OnTargets(b, sn, entry[1].property)
        ELSE OnText(b, sn, entry[1].property)

\* Clipboard::handle_event, called with the oldest queued event; b is the
\* work at its entry.
Handle(b) ==
    /\ xq # <<>>
    /\ ev' = Head(xq)
    /\ IF Head(xq).type = "SelectionRequest"
       THEN OnSelectionRequest(b, Head(xq))
       ELSE IF Head(xq).type = "XfixesSelectionNotify"
       THEN OnXfixesSelectionNotify(b, Head(xq))
       ELSE OnSelectionNotify(b, Head(xq))
    /\ UNCHANGED <<owner, offer, ctlVars, uiVars, auxVars>>

\* handle_event on a server and a connection that fail no request (but
\* the requests the protocol rejects).
HandleEvent == Handle(Begin)

\* handle_event when the k-th request it sends fails (the window is gone,
\* the connection breaks): the handler returns the error.
HandleEventFailing(k) ==
    /\ Handle([Begin EXCEPT !.fail = k])
    /\ err'
    /\ Len(xlog') = k

\* Clipboard::take_ownership sends SetSelectionOwner(setter, PRIMARY, 0);
\* the server makes the setter the owner of PRIMARY and tells the daemon,
\* which has selected selection input.  (The caller enters the request in
\* xlog.)
TakeOwnership ==
    /\ owner' = [owner EXCEPT !["PRIMARY"] = "setter"]
    /\ xq' = Append(xq, XfixesSelectionNotify("PRIMARY", "setter"))
    /\ due' = [due EXCEPT !["PRIMARY"] = None]
    /\ UNCHANGED <<get_states, getter_props, offer, converts, ev>>

\* main.rs:67-85: the clips the daemon puts into its database at startup.
SeedClips ==
    <<[source |-> "Clipboard",
       contents |-> <<"c", "l", "i", "p", "b", "o", "a", "r", "d">>],
      [source |-> "Primary",
       contents |-> <<"p", "r", "i", "m", "a", "r", "y">>],
      [source |-> "Secondary",
       contents |-> <<"s", "e", "c", "o", "n", "d", "a", "r", "y">>]>>

\* main.rs:66-85: the database after the adds at startup; the last of them
\* is an add of "secondary" again, which takes the place of the tail.
SeededDatabase ==
    /\ clips = SeedClips
    /\ selection = None
    /\ start_idx = 0
    /\ op = "add_clip"
    /\ argClip = Some(SeedClips[Len(SeedClips)])
    /\ argIdx = None
    /\ resIdx = Some(Len(SeedClips) - 1)
    /\ resClip = None
    /\ resBool = FALSE
    /\ srch = None
    /\ lastIdx = Some(Len(SeedClips) - 1)
    /\ run = None
    /\ selBy = "new"
    /\ selecting = None
    /\ admitted = {SeedClips[k] : k \in 1..Len(SeedClips)}

\* Clipboard::new on a display where no selection has an owner: the three
\* conversions of fetch_initial are in the table and the server has
\* refused them.
ClipboardNew ==
    LET none == [s \in Selections |-> "none"]
        st == FetchInitial(Work({}, {}, {}), none, 1)
    IN  /\ get_states = st.states
        /\ getter_props = st.props
        /\ owner = none
        /\ offer = [s \in Selections |-> NoOffer]
        /\ converts = st.conv
        /\ xq = st.out
        /\ ev = NoEvent
        /\ xlog = st.log
        /\ err = FALSE
        /\ due = [s \in Selections |-> None]

\* The daemon after startup, with its selection engine.
DaemonInit == SeededDatabase /\ ClipboardNew /\ NoWindow

\* What the clients of the model offer: a text, another text that contains
\* it, or an image and no text.
Offers ==
    {Offer(<<"TARGETS", "UTF8_STRING">>, <<"a">>),
     Offer(<<"TARGETS", "UTF8_STRING">>, <<"a", "b">>),
     Offer(<<"image/png">>, <<>>)}

\* The XfixesSelectionNotify events in the queue that will start a
\* transaction.
Starting == {k \in 1..Len(xq) : xq[k].type = "XfixesSelectionNotify"
                                   /\ xq[k].owner # "setter"}

\* A client becomes the owner of a selection; the server tells the daemon.
\* (The clients do so while a REPEAT_n of the model is left for the
\* transaction.)
ClientOwns(s, off) ==
    /\ Len(xq) < MaxEvents
    /\ Cardinality(get_states) + Cardinality(Starting) < Len(RepeatAtoms)
    /\ owner' = [owner EXCEPT ![s] = "client"]
    /\ offer' = [offer EXCEPT ![s] = off]
    /\ xq' = Append(xq, XfixesSelectionNotify(s, "client"))
    /\ due' = [due EXCEPT ![s] = IF Contains(off.targets, "UTF8_STRING")
                                 THEN Some(off.text) ELSE None]
    /\ UNCHANGED <<get_states, getter_props, converts, ev, xlog, err>>

\* The client answers a conversion: it writes the list of its targets or
\* its text to the property of the getter and sends the SelectionNotify; a
\* target it does not have it refuses with property None.
ClientAnswers(c) ==
    LET off == offer[c.selection]
    IN  /\ c \in converts
        /\ converts' = converts \ {c}
        /\ IF c.target = "TARGETS"
           THEN /\ getter_props' = WithProp(getter_props, c.property, "ATOM", 32,
                                            AtomBytes(off.targets))
                /\ xq' = Append(xq, SelectionNotify("getter", c.selection,
                                                    c.target, c.property))
           ELSE IF Contains(off.targets, c.target)
           THEN /\ getter_props' = WithProp(getter_props, c.property, c.target,
                                            8, Bytes(off.text))
                /\ xq' = Append(xq, SelectionNotify("getter", c.selection,
                                                    c.target, c.property))
           ELSE /\ getter_props' = getter_props
                /\ xq' = Append(xq, SelectionNotify("getter", c.selection,
                                                    c.target, NoAtom))
        /\ UNCHANGED <<get_states, owner, offer, ev, xlog, err, due>>

\* The targets clients ask the daemon for: the two it serves and one it
\* does not.
RequestTargets == {"TARGETS", "UTF8_STRING", "STRING"}

\* A client asks for PRIMARY while the setter owns it: the server sends the
\* daemon the SelectionRequest.
ClientConverts(target, property) ==
    /\ Len(xq) < MaxEvents
    /\ owner["PRIMARY"] = "setter"
    /\ xq' = Append(xq, SelectionRequest("client", "PRIMARY", target, property))
    /\ UNCHANGED <<get_states, getter_props, owner, offer, converts, ev, xlog,
                   err, due>>

NextServe ==
    \/ \E k \in 1..Len(SeedClips) :
          SelectClip(SeedClips[k]) /\ UNCHANGED <<xVars, ctlVars, uiVars, auxVars>>
    \/ /\ Len(xq) < MaxEvents
       /\ TakeOwnership
       /\ xlog' = <<SetSelectionOwner("setter", "PRIMARY")>>
       /\ err' = FALSE
       /\ UNCHANGED <<dbVars, ctlVars, uiVars, auxVars>>
    \/ \E t \in RequestTargets :
          ClientConverts(t, "XSEL_DATA") /\ UNCHANGED <<dbVars, ctlVars, uiVars, auxVars>>
    \/ HandleEvent

\* The selection engine serving PRIMARY to a client.
SpecServe == DaemonInit /\ [][NextServe]_vars

\* -------------------------------------------------------- control plane

\* main.rs:93 gives the channel a buffer of 10; the model keeps it short.
\* A send waits while the channel is full.
MaxChan == 2

\* rpc.rs:14-19: the verbs of the Manager service.
Verbs == {"show", "pause", "start"}

\* Every verb sends Show.
MessageShow(v) == "Show"

\* rpc.rs:36-48: the Message the Server sends for a verb.
MessageOf(v) ==
    CASE v = "show" -> "Show"
      [] v = "pause" -> "Pause"
      [] v = "start" -> "Start"

\* rpc.rs:34-49: Server::show, pause and start.
Call(v) ==
    /\ Len(chan) < MaxChan
    /\ verb' = v
    /\ chan' = Append(chan, MessageOf(v))
    /\ UNCHANGED <<msg, pauseSeen>>

\* main.rs:128-139: the arm of the match that takes a message; Show is the
\* only message with an arm.
Arm(message) == IF message = "Show" THEN "Show" ELSE "None"

\* ----------------------------------------------------------------- picker

\* window.rs:132,134: the picker shows at most 100 clips.
SHOWN == 100

\* window.rs:257: the keycode send_key is called with (Insert).
KEY_INSERT == 118

\* The text typed into the picker has at most MaxInput characters.
MaxInput == 2

\* The windows of other clients that may have the input focus.
ClientWindows == {"client", "terminal"}

\* A key event: the symbol is the one keyboard_state gives for its keycode.
KeyEvent(type, sym) == [XEvent(type, NoAtom, NoAtom, NoAtom, NoAtom, NoAtom)
                          EXCEPT !.sym = sym]

\* window.rs:311-325: the event send_key builds.
SentKey(type, w, key, modmask) ==
    [XEvent(type, w, NoAtom, NoAtom, NoAtom, NoAtom)
       EXCEPT !.detail = key, !.state = modmask]

\* The release before the press.
SendKeyReleaseFirst(w, key, modmask) ==
    <<SendEvent(w, SentKey("KeyRelease", w, key, modmask)),
      SendEvent(w, SentKey("KeyPress", w, key, modmask))>>

\* window.rs:304-344: send_key sends the press and then the release.
SendKey(w, key, modmask) ==
    <<SendEvent(w, SentKey("KeyPress", w, key, modmask)),
      SendEvent(w, SentKey("KeyRelease", w, key, modmask))>>

WindowRequest(req, w) ==
    XRequest(req, w, NoAtom, NoAtom, NoAtom, NoAtom, 0, 0, <<>>, NoEvent)

\* A call of the database, entered in xlog between the requests.
DatabaseCall(method) == WindowRequest(method, "database")

CreateWindow(w) == WindowRequest("CreateWindow", w)

MapWindow(w) == WindowRequest("MapWindow", w)

\* Window::hide
UnmapWindow(w) == WindowRequest("UnmapWindow", w)

\* focus_window
SetInputFocus(w) == WindowRequest("SetInputFocus", w)

\* struct Window
Window(input, searches, current_choice, focused_window, shift, ctrl) ==
    [input |-> input, searches |-> searches,
     current_choice |-> current_choice, focused_window |-> focused_window,
     shift |-> shift, ctrl |-> ctrl]

\* The newest clips built anew as PRIMARY clips, not cloned.
NewestAsPrimary(cl) ==
    LET r == Take(Reversed(cl), SHOWN)
    IN  [k \in 1..Len(r) |-> [r[k] EXCEPT !.source = "Primary"]]

\* window.rs:132: the newest clips first.
Newest(cl) == Take(Reversed(cl), SHOWN)

\* Option::is_none
IsNoneAlways(w) == TRUE

IsNone(w) == w = None

\* The parts of the engine and of the server a picker step leaves alone
\* when it does not take ownership.
NoOwnership ==
    UNCHANGED <<get_states, getter_props, owner, offer, converts, xq, ev, due>>

\* Window::create: the window is created with the focused window
\* remembered, an empty input and, by show and research, the newest clips;
\* it is mapped and given the input focus.
Create ==
    /\ window' = Some(Window(<<>>, Newest(clips), 0, focus, FALSE, FALSE))
    /\ focus' = "picker"
    /\ xlog' = <<CreateWindow("picker"), MapWindow("picker"),
                 SetInputFocus("picker")>>
    /\ UNCHANGED <<wev, action>>

\* main.rs:126-140: the event loop takes a message from the channel.
Receive ==
    /\ action # "Panic"
    /\ chan # <<>>
    /\ chan' = Tail(chan)
    /\ msg' = Received(Head(chan), Arm(Head(chan)))
    /\ pauseSeen' = IF Head(chan) = "Pause" THEN TRUE
                    ELSE IF Head(chan) = "Start" THEN FALSE
                    ELSE pauseSeen
    /\ IF Arm(Head(chan)) = "Show" /\ IsNone(window)
       THEN Create
       ELSE xlog' = <<>> /\ UNCHANGED uiVars
    /\ err' = FALSE
    /\ NoOwnership
    /\ UNCHANGED <<dbVars, verb, auxVars>>

\* What Window::handle_event and the event loop around it (main.rs:106-
\* 121) leave behind: the loop drops the Window when the handler returns
\* CloseWindow (the future of destroy is not awaited, so no request is
\* sent for it).
Returned(w, act, log, foc) ==
    /\ window' = IF act = "CloseWindow" THEN None ELSE Some(w)
    /\ action' = act
    /\ xlog' = log
    /\ focus' = foc

\* An arm that changes the Window only.
Stay(w) ==
    /\ Returned(w, "StayOpen", <<>>, focus)
    /\ NoOwnership
    /\ UNCHANGED dbVars

\* research, window.rs:129-136: the newest clips for an empty input, else
\* what Database::search returns for the input with the scores sc.
Research(w) ==
    /\ \E sc \in [IF w.input = <<>> THEN {} ELSE Matching(clips, w.input)
                      -> Scores] :
          Returned([w EXCEPT
                      !.current_choice = 0,
                      !.searches =
                          IF w.input = <<>> THEN Newest(clips)
                          ELSE SearchResult(clips,
                                            MatchedClips(clips, w.input, sc, 1),
                                            SHOWN)],
                   "StayOpen", <<>>, focus)
    /\ NoOwnership
    /\ UNCHANGED dbVars

\* selection_up, window.rs:182-188
SelectionUp(w) ==
    Stay([w EXCEPT !.current_choice = IF @ > 0 THEN @ - 1 ELSE @])

\* selection_down, window.rs:174-180.  With no clip shown, len() - 1
\* overflows: a build with overflow checks panics, a build without them
\* wraps around and counts current_choice up.
SelectionDown(w, build) ==
    IF w.searches = <<>> /\ build = "checked"
    THEN /\ window' = window
         /\ action' = "Panic"
         /\ xlog' = <<>>
         /\ focus' = focus
         /\ NoOwnership
         /\ UNCHANGED dbVars
    ELSE Stay([w EXCEPT !.current_choice =
                   IF w.searches = <<>> \/ @ < Len(w.searches) - 1
                   THEN @ + 1 ELSE @])

\* hide without focus_window.
HiddenOnly(w) == <<UnmapWindow("picker")>>

\* window.rs:221-222 and 247-248: hide, then focus_window(focused_window).
Hidden(w) == <<UnmapWindow("picker"), SetInputFocus(w.focused_window)>>

\* The arms that close the picker and select nothing.
Close(w) ==
    /\ Returned(w, "CloseWindow", Hidden(w), w.focused_window)
    /\ NoOwnership
    /\ UNCHANGED dbVars

\* window.rs:253-260: select_clip, take_ownership and, without Ctrl,
\* send_key.
Commit(w) ==
    /\ SelectClip(w.searches[w.current_choice + 1])
    /\ TakeOwnership
    /\ Returned(w, "CloseWindow",
                Hidden(w) \o <<DatabaseCall("select_clip"),
                               SetSelectionOwner("setter", "PRIMARY")>>
                    \o (IF w.ctrl THEN <<>>
                        ELSE SendKey(w.focused_window, KEY_INSERT, "SHIFT")),
                w.focused_window)

\* window.rs:207-282: Event::KeyPress
KeyPress(w, sym, build) ==
    IF sym \in {"Control_L", "Control_R"} THEN Stay([w EXCEPT !.ctrl = TRUE])
    ELSE IF sym \in {"Shift_L", "Shift_R"} THEN Stay([w EXCEPT !.shift = TRUE])
    ELSE IF sym = "Escape" THEN Close(w)
    ELSE IF sym \in {"K", "k"} /\ w.ctrl THEN SelectionUp(w)
    ELSE IF sym = "Up" THEN SelectionUp(w)
    ELSE IF sym \in {"J", "j"} /\ w.ctrl THEN SelectionDown(w, build)
    ELSE IF sym = "Down" THEN SelectionDown(w, build)
    ELSE IF sym \in {"u", "U"} /\ w.ctrl THEN Research([w EXCEPT !.input = <<>>])
    ELSE IF sym = "BackSpace"
    THEN Research([w EXCEPT !.input = SubSeq(@, 1, Len(@) - 1)])
    ELSE IF sym = "Return"
    THEN IF w.searches # <<>> /\ w.current_choice < Len(w.searches)
         THEN Commit(w)
         ELSE Close(w)
    ELSE IF w.ctrl THEN Stay(w)
    ELSE Research([w EXCEPT !.input = Append(@, sym)])

\* window.rs:197-206: Event::KeyRelease
KeyRelease(w, sym) ==
    IF sym \in {"Control_L", "Control_R"} THEN Stay([w EXCEPT !.ctrl = FALSE])
    ELSE IF sym \in {"Shift_L", "Shift_R"} THEN Stay([w EXCEPT !.shift = FALSE])
    ELSE Stay(w)

\* window.rs:286-288: Event::FocusOut
FocusOut(w) ==
    /\ Returned(w, "StayOpen", <<SetInputFocus("picker")>>, "picker")
    /\ NoOwnership
    /\ UNCHANGED dbVars

\* Window::handle_event
WindowHandleEvent(w, e, build) ==
    IF e.type = "KeyRelease" THEN KeyRelease(w, e.sym)
    ELSE IF e.type = "KeyPress" THEN KeyPress(w, e.sym, build)
    ELSE IF e.type = "FocusOut" THEN FocusOut(w)
    ELSE Stay(w)

\* The keys pressed in the picker and the builds of the daemon.
KeySyms == {"Control_L", "Escape", "Up", "Down", "u", "BackSpace", "Return",
            "p"}

Builds == {"checked", "wrapping"}

\* The key can be pressed: keys that are typed into the input while it is
\* shorter than MaxInput, Return while the server has room for the event
\* of the new owner, Down on an empty list while current_choice is small.
Pressable(w, sym) ==
    /\ (~w.ctrl /\ sym \in {"u", "p"}) => Len(w.input) < MaxInput
    /\ sym = "Return" => Len(xq) < MaxEvents
    /\ (sym = "Down" /\ w.searches = <<>>) => w.current_choice < MaxInput

\* main.rs:100-123: an iteration of the event loop that receives an event
\* of the open picker, which has the focus.
LoopWindowEvent(e, build) ==
    /\ action # "Panic"
    /\ window # None
    /\ focus = "picker"
    /\ e.type = "KeyPress" => Pressable(window[1], e.sym)
    /\ wev' = e
    /\ WindowHandleEvent(window[1], e, build)
    /\ msg' = NoMessage
    /\ err' = FALSE
    /\ UNCHANGED <<verb, chan, pauseSeen, auxVars>>

\* main.rs:100-123: an iteration that receives another X11 event: the
\* picker, when there is one, is called with it.
LoopEvent ==
    /\ action # "Panic"
    /\ xq # <<>>
    /\ xq' = Tail(xq)
    /\ IF window = None
       THEN UNCHANGED <<window, wev, action>>
       ELSE /\ window' = window
            /\ wev' = Head(xq)
            /\ action' = "StayOpen"
    /\ xlog' = <<>>
    /\ msg' = NoMessage
    /\ err' = FALSE
    /\ UNCHANGED <<dbVars, get_states, getter_props, owner, offer, converts,
                   ev, due, verb, chan, pauseSeen, focus, auxVars>>

\* Another client's window gets the input focus while no picker is open.
ClientFocus(w) ==
    /\ window = None
    /\ focus' = w
    /\ UNCHANGED <<window, wev, action>>

WindowEvents ==
    {KeyEvent("KeyPress", sym) : sym \in KeySyms}
        \cup {KeyEvent("KeyRelease", "Control_L")}
        \cup {KeyEvent("FocusOut", "None")}

NextPicker ==
    \/ Call("show") /\ UNCHANGED <<dbVars, xVars, uiVars, auxVars>>
    \/ Receive
    \/ \E e \in WindowEvents :
          \E build \in IF e.sym = "Down" THEN Builds ELSE {"checked"} :
              LoopWindowEvent(e, build)
    \/ LoopEvent
    \/ \E w \in ClientWindows : ClientFocus(w) /\ UNCHANGED <<dbVars, xVars, ctlVars, auxVars>>

\* main.rs:66-93: the daemon when it enters its event loop; it has
\* constructed no Clipboard.
LoopInit == SeededDatabase /\ NoClipboard /\ NoWindow

\* The event loop of the daemon with its control plane and its picker.
SpecPicker == LoopInit /\ [][NextPicker]_vars

\* The conversions the engine can have asked a client for.
Conversions ==
    [selection : Selections, target : {"TARGETS", "UTF8_STRING"},
     property : {RepeatAtoms[n] : n \in 1..Len(RepeatAtoms)}]

\* A client answers the conversion c.
Answer(c) == ClientAnswers(c) /\ UNCHANGED <<dbVars, ctlVars, uiVars, auxVars>>

NextCapture ==
    \/ \E off \in Offers :
          ClientOwns("PRIMARY", off) /\ UNCHANGED <<dbVars, ctlVars, uiVars, auxVars>>
    \/ \E c \in converts : Answer(c)
    \/ HandleEvent

\* The selection engine capturing what a client owns.  The daemon handles
\* every event that waits in its queue, and a client answers every
\* conversion it is asked for.
SpecCapture ==
    /\ DaemonInit
    /\ [][NextCapture]_vars
    /\ WF_vars(HandleEvent)
    /\ \A c \in Conversions : WF_vars(Answer(c))

NextPause ==
    \/ ClientOwns("PRIMARY", Offer(<<"TARGETS", "UTF8_STRING">>, <<"a">>))
          /\ UNCHANGED <<dbVars, ctlVars, uiVars, auxVars>>
    \/ \E c \in converts : Answer(c)
    \/ HandleEvent
    \/ \E v \in {"pause", "start"} : Call(v) /\ UNCHANGED <<dbVars, xVars, uiVars, auxVars>>
    \/ Receive

\* The selection engine and the event loop under pause and start.
SpecPause == DaemonInit /\ [][NextPause]_vars

NextControl ==
    \/ \E v \in Verbs : Call(v) /\ UNCHANGED <<dbVars, xVars, uiVars, auxVars>>
    \/ Receive
    \/ LoopWindowEvent(KeyEvent("KeyPress", "Escape"), "checked")

\* The control plane: the verbs of the RPC server and the event loop that
\* receives their messages; Escape closes the picker a show has opened.
SpecControl == LoopInit /\ [][NextControl]_vars

\* The clips captured while the picker is in use.
CapturedClips == {c \in InputClips : c.source = "Primary" /\ Len(c.contents) = 1}

\* add_clip, with the clip entered in admitted when it is pushed.
Admit(c) ==
    /\ AddClip(c)
    /\ admitted' = IF resIdx' # None THEN admitted \cup {c} ELSE admitted
    /\ UNCHANGED <<selecting, xVars, ctlVars, uiVars>>

\* The keys pressed in the picker while clips are captured.
HistoryKeys == {"Down", "Return", "p"}

NextHistory ==
    \/ Call("show") /\ UNCHANGED <<dbVars, xVars, uiVars, auxVars>>
    \/ Receive
    \/ \E sym \in HistoryKeys : LoopWindowEvent(KeyEvent("KeyPress", sym), "wrapping")
    \/ LoopEvent
    \/ \E c \in CapturedClips : Admit(c)

\* The picker selecting from a history that clips are added to.
SpecHistory == LoopInit /\ [][NextHistory]_vars

\* What the client that owns a selection may offer: PRIMARY and SECONDARY
\* a text of their own, CLIPBOARD targets without UTF8_STRING (an image
\* among them) or no targets at all.
OwnerOffers(s) ==
    CASE s = "PRIMARY" -> {Offer(<<"TARGETS", "UTF8_STRING">>, <<"a">>)}
      [] s = "SECONDARY" -> {Offer(<<"TARGETS", "UTF8_STRING">>, <<"b">>)}
      [] s = "CLIPBOARD" -> {Offer(<<"STRING", "image/png">>, <<>>),
                             Offer(<<>>, <<>>)}

NextOwners ==
    \/ \E s \in Selections : \E off \in OwnerOffers(s) :
          ClientOwns(s, off) /\ UNCHANGED <<dbVars, ctlVars, uiVars, auxVars>>
    \/ /\ Len(xq) < MaxEvents
       /\ TakeOwnership
       /\ xlog' = <<SetSelectionOwner("setter", "PRIMARY")>>
       /\ err' = FALSE
       /\ UNCHANGED <<dbVars, ctlVars, uiVars, auxVars>>
    \/ \E c \in converts : Answer(c)
    \/ HandleEvent

\* The selection engine while clients and the setter become the owners of
\* the three selections.
SpecOwners == DaemonInit /\ [][NextOwners]_vars

\* The requests of a handler that fail: a handler sends at most four.
FailAt == 1..4

NextFaults ==
    \/ ClientOwns("PRIMARY", Offer(<<"TARGETS", "UTF8_STRING">>, <<"a">>))
          /\ UNCHANGED <<dbVars, ctlVars, uiVars, auxVars>>
    \/ \E c \in converts : Answer(c)
    \/ HandleEvent
    \/ \E k \in FailAt : HandleEventFailing(k)

\* The selection engine capturing what a client owns while requests fail.
SpecFaults == DaemonInit /\ [][NextFaults]_vars

\* ------------------------------------------------------------ properties

Min(a, b) == IF a < b THEN a ELSE b

Max(a, b) == IF a < b THEN b ELSE a

\* The clip at the back of the ring.
Back(cl) == cl[Len(cl)]

\* Index i lies in [start_idx, start_idx + |ring|).
InRing(i) == start_idx <= i /\ i < start_idx + Len(clips)

\* C1 (Dedup): add_clip called with a clip equal to the tail of the ring
\* returns None and leaves the ring as it was.  (The ring changes only in
\* add_clip, so a clip passed to two add_clip calls in a row that was
\* admitted by the first is the tail at the second.)
C1_DedupTail ==
    [][\A c \in InputClips :
         (clips # <<>> /\ Back(clips) = c /\ op' = "add_clip" /\ argClip' = Some(c))
            => (resIdx' = None /\ clips' = clips)]_vars

\* C2 (Index monotonicity): the index an add_clip returns is greater than
\* the index the last add_clip that returned Some gave.
C2_IndexStrictlyIncreasing ==
    [][(op' = "add_clip" /\ resIdx' # None /\ lastIdx # None)
          => resIdx'[1] > lastIdx[1]]_vars

\* C3 (Stable lookup): every clip of the ring sits at the index add_clip
\* returned for it; no step changes what at(i) returns for an index i that
\* is still at or above start_idx, and at(i) is None for every i below
\* start_idx, in every later state too.
C3_StableLookup ==
    [][\A i \in 0..(start_idx + Len(clips) - 1) :
         /\ (InRing(i) /\ i >= start_idx')
               => AtIn(clips', start_idx', i) = AtIn(clips, start_idx, i)
         /\ (i < start_idx)
               => (AtIn(clips, start_idx, i) = None
                      /\ AtIn(clips', start_idx', i) = None)]_vars

\* C4: no two entries of the ring have equal contents.
C4_NoEqualContents ==
    \A j, k \in 1..Len(clips) :
        j # k => clips[j].contents # clips[k].contents

\* A duplicate was offered to a ring of several clips, one of them with the
\* same contents and another source, and was refused.
C4_Witness ==
    /\ op = "add_clip"
    /\ resIdx = None
    /\ Len(clips) >= 2
    /\ \E k \in 1..Len(clips) :
          clips[k].contents = argClip[1].contents /\ clips[k] # argClip[1]

\* C5 (Bounded size): the ring never holds more than MAX_CLIPS clips.
C5_BoundedSize == Len(clips) <= MAX_CLIPS

\* An add_clip has just evicted the front of a full ring.
C5_Witness ==
    op = "add_clip" /\ resIdx # None /\ start_idx > 0 /\ Len(clips) = MAX_CLIPS

\* C6 (Containment collapse): when the tail c1 of the ring has contents that
\* are a substring of the contents of c2, add_clip(c2) leaves c2 at the tail
\* and c1 out of the ring, whatever the ring held.  Stated for a c2 that
\* differs from c1 in contents (a c2 equal to c1 is trivially "in the ring"
\* afterwards).
C6_ContainmentCollapse ==
    [][\A c2 \in InputClips :
         (/\ clips # <<>>
          /\ ClipContains(c2, Back(clips))
          /\ c2.contents # Back(clips).contents
          /\ op' = "add_clip" /\ argClip' = Some(c2))
            => (/\ clips' # <<>>
                /\ Back(clips') = c2
                /\ \A k \in 1..Len(clips') : clips'[k] # Back(clips))]_vars

\* C7 (Selection persistence): what selection() returns changes only in a
\* select that returns true and in select_clip: not in add_clip (also when
\* it evicts or collapses the selected clip), not in a select that returns
\* false, not in at or selection; and selection() returns that value.
C7_SelectionPersists ==
    [][/\ (op' = "select_clip" \/ (op' = "select" /\ resBool'))
            \/ SelectionOf(selection', clips') = SelectionOf(selection, clips)
       /\ op' = "selection" => resClip' = selection]_vars

\* selection() has returned a clip that select(i) selected and that has
\* since been evicted from the ring.
C7_Witness ==
    /\ op = "selection"
    /\ selBy = "select"
    /\ resClip # None
    /\ start_idx > 0
    /\ \A k \in 1..Len(clips) : clips[k].contents # resClip[1].contents

\* C8 (Rolling eviction): after N adds to an empty store, pairwise distinct
\* and none containing its predecessor's contents, the ring holds the last
\* min(N, MAX_CLIPS) clips, start_idx is max(0, N - MAX_CLIPS), the add just
\* made returned N - 1 and at(N - 1) is its clip, and at(j) is None below
\* start_idx.
C8_RollingEviction ==
    run # None =>
        LET N == Len(run[1])
        IN  /\ Len(clips) = Min(N, MAX_CLIPS)
            /\ start_idx = Max(0, N - MAX_CLIPS)
            /\ \A k \in 1..Len(clips) :
                  clips[k].contents = run[1][N - Len(clips) + k]
            /\ \A j \in 0..(start_idx - 1) : AtIn(clips, start_idx, j) = None
            /\ N > 0 => /\ AtIn(clips, start_idx, N - 1) # None
                        /\ AtIn(clips, start_idx, N - 1)[1].contents = run[1][N]
            /\ op = "add_clip" => /\ resIdx = Some(N - 1)
                                  /\ AtIn(clips, start_idx, N - 1) = argClip

\* More than MAX_CLIPS such clips have been added.
C8_Witness ==
    run # None /\ Len(run[1]) > MAX_CLIPS /\ op = "add_clip"

\* C9: select(i) returns true and sets selection to the clip at logical
\* index i exactly when i lies in [start_idx, start_idx + |ring|); otherwise
\* it returns false and leaves selection as it was.  It never changes the
\* ring or start_idx.
C9_Select ==
    [][op' = "select" =>
         LET i == argIdx'[1]
         IN  /\ InRing(i) => (resBool' /\ selection' = Some(clips[i - start_idx + 1]))
             /\ ~InRing(i) => (~resBool' /\ selection' = selection)
             /\ clips' = clips
             /\ start_idx' = start_idx]_vars

\* A select of the front of a ring that has evicted clips succeeded.
C9_Witness ==
    /\ op = "select"
    /\ resBool
    /\ start_idx > 0
    /\ argIdx = Some(start_idx)
    /\ selection = Some(clips[1])

\* The position in the ring of the clip with the contents of c (C4: there is
\* at most one).
PositionOf(c) == CHOOSE k \in 1..Len(clips) : clips[k].contents = c.contents

\* The score fuzzy_match gave the clip at position k in the search recorded.
ScoreAt(k) ==
    LET m == srch[1].matched
    IN  m[CHOOSE j \in 1..Len(m) : m[j][1] = k - 1][2]

\* C10: search returns its results by descending score, and of two results
\* with equal scores the one inserted later (further back in the ring)
\* comes first.
C10_SearchRanked ==
    srch # None =>
        LET r == srch[1].result
        IN  \A j \in 1..(Len(r) - 1) :
                LET hi == PositionOf(r[j])
                    lo == PositionOf(r[j + 1])
                IN  \/ ScoreAt(hi) > ScoreAt(lo)
                    \/ ScoreAt(hi) = ScoreAt(lo) /\ hi > lo

\* A search returned three clips: two with equal scores, the newer first,
\* ahead of one with a lower score that is newer than both.
C10_Witness ==
    /\ srch # None
    /\ Len(srch[1].result) = 3
    /\ LET r == srch[1].result
       IN  /\ ScoreAt(PositionOf(r[1])) = ScoreAt(PositionOf(r[2]))
           /\ ScoreAt(PositionOf(r[2])) > ScoreAt(PositionOf(r[3]))
           /\ PositionOf(r[3]) > PositionOf(r[1])
           /\ PositionOf(r[1]) > PositionOf(r[2])

\* The ring entries whose contents the pattern matches, by position.
Matches(cl, pattern) ==
    {k \in 1..Len(cl) : IsSubsequence(pattern, cl[k].contents)}

\* C11: search(pattern, max) returns exactly min(max, m) clips, m being the
\* number of ring entries the pattern matches; every clip returned is an
\* entry of the ring that matches, no entry is returned twice, and search
\* leaves the ring, start_idx and the selection as they were.
C11_SearchExact ==
    [][op' = "search" =>
         LET r == srch'[1].result
             p == srch'[1].pattern
             m == Cardinality(Matches(clips, p))
         IN  /\ Len(r) = Min(srch'[1].max, m)
             /\ \A j \in 1..Len(r) : \E k \in Matches(clips, p) : clips[k] = r[j]
             /\ \A i, j \in 1..Len(r) : i # j => r[i] # r[j]
             /\ clips' = clips
             /\ start_idx' = start_idx
             /\ selection' = selection]_vars

\* A search cut its result short: the pattern matched several entries of a
\* ring that also holds an entry it does not match, and max was 1.
C11_Witness ==
    /\ srch # None
    /\ srch[1].max = 1
    /\ Len(srch[1].result) = 1
    /\ Cardinality(Matches(clips, srch[1].pattern)) >= 2
    /\ Cardinality(Matches(clips, srch[1].pattern)) < Len(clips)

\* C19: an add_clip that returns None leaves the ring, start_idx and the
\* selection as they were.
C19_NoneLeavesStore ==
    [][(op' = "add_clip" /\ resIdx' = None)
          => (clips' = clips /\ start_idx' = start_idx
                 /\ selection' = selection)]_vars

\* C20 (containment is one-directional): add_clip of a clip whose contents
\* are a proper substring of the tail's contents and equal to no entry's
\* keeps the tail, appends the clip after it and returns Some.  In every
\* add_clip the tail leaves the ring only when the clip contains the tail's
\* contents (or the tail is also the front and is evicted), and an older
\* entry only as the front that is evicted.
C20_OneDirectional ==
    [][op' = "add_clip" =>
         LET c == argClip'[1]
             n == Len(clips)
             evicted == start_idx' > start_idx
         IN  /\ (/\ n > 0
                 /\ StrContains(Back(clips).contents, c.contents)
                 /\ \A k \in 1..n : clips[k].contents # c.contents)
                   => /\ resIdx' # None
                      /\ Len(clips') >= 2
                      /\ Back(clips') = c
                      /\ clips'[Len(clips') - 1] = Back(clips)
             /\ (n > 0 /\ \A k \in 1..Len(clips') : clips'[k] # Back(clips))
                   => \/ StrContains(c.contents, Back(clips).contents)
                      \/ evicted /\ n = 1
             /\ \A k \in 1..(n - 1) :
                   \/ evicted /\ k = 1
                   \/ clips'[IF evicted THEN k - 1 ELSE k] = clips[k]]_vars

\* A clip that is a proper substring of the tail was appended behind it.
C20_Witness ==
    /\ op = "add_clip"
    /\ resIdx # None
    /\ Len(clips) >= 2
    /\ Back(clips) = argClip[1]
    /\ StrContains(clips[Len(clips) - 1].contents, argClip[1].contents)
    /\ clips[Len(clips) - 1].contents # argClip[1].contents

\* The step is a call of Clipboard::handle_event with an event of the type:
\* no other step takes an event from the queue.
Handles(type) ==
    /\ xq # <<>>
    /\ Head(xq).type = type
    /\ ev' = Head(xq)
    /\ xq' # xq
    /\ Len(xq') <= Len(xq)

\* The positions in a log of the requests of a kind.
Requests(log, req) == {k \in 1..Len(log) : log[k].req = req}

\* C12: the handler of a SelectionRequest sends exactly one SelectionNotify,
\* to the requestor, with the selection, target and property of the
\* request, whatever the target and whether or not a selection is set.
C12_OneNotify ==
    [][Handles("SelectionRequest") =>
         LET sr == Head(xq)
             sent == Requests(xlog', "SendEvent")
         IN  /\ Cardinality(sent) = 1
             /\ \A k \in sent :
                   /\ xlog'[k].window = sr.requestor
                   /\ xlog'[k].event.type = "SelectionNotify"
                   /\ xlog'[k].event.requestor = sr.requestor
                   /\ xlog'[k].event.selection = sr.selection
                   /\ xlog'[k].event.target = sr.target
                   /\ xlog'[k].event.property = sr.property]_vars

\* The handler wrote, in one ChangeProperty, the atoms TARGETS and
\* UTF8_STRING as two little-endian 32-bit values to the property of the
\* request on the requestor, with type ATOM and format 32.
TargetsWritten(sr, log) ==
    /\ Cardinality(Requests(log, "ChangePropertyReplace")) = 1
    /\ \A k \in Requests(log, "ChangePropertyReplace") :
          /\ log[k].window = sr.requestor
          /\ log[k].property = sr.property
          /\ log[k].type = "ATOM"
          /\ log[k].format = 32
          /\ Len(log[k].data) = 8
          /\ FromLeBytes(SubSeq(log[k].data, 1, 4)) = AtomId("TARGETS")
          /\ FromLeBytes(SubSeq(log[k].data, 5, 8)) = AtomId("UTF8_STRING")

\* C13 as stated: a TARGETS SelectionRequest handled while the history is
\* not empty is answered with the bytes of [TARGETS, UTF8_STRING].
C13_TargetsOnHistory ==
    [][(Handles("SelectionRequest") /\ Head(xq).target = "TARGETS"
            /\ clips # <<>>)
          => TargetsWritten(Head(xq), xlog')]_vars

\* C13 amended: a TARGETS SelectionRequest handled while a selection is
\* set is answered with the bytes of [TARGETS, UTF8_STRING], little-endian,
\* written to sr.property of sr.requestor with format 32 and type ATOM.
C13_TargetsOnSelection ==
    [][(Handles("SelectionRequest") /\ Head(xq).target = "TARGETS"
            /\ selection # None)
          => TargetsWritten(Head(xq), xlog')]_vars

\* A TARGETS request of a client has been answered with eight bytes.
C13_Witness ==
    /\ ev.type = "SelectionRequest"
    /\ ev.target = "TARGETS"
    /\ ev.requestor = "client"
    /\ selection # None
    /\ ~err
    /\ \E k \in 1..Len(xlog) : xlog[k].format = 32 /\ Len(xlog[k].data) = 8

C15_PausedStartsNothing ==
    [][(pauseSeen /\ Handles("XfixesSelectionNotify"))
          => (get_states' = get_states
                 /\ Requests(xlog', "ConvertSelection") = {})]_vars

\* The step is the event loop's call of Window::handle_event with a press
\* of the key, which closed the picker.
ClosedBy(sym) ==
    /\ window # None
    /\ window' = None
    /\ wev' = KeyEvent("KeyPress", sym)

\* C16 (picker commit): Return pressed on a picker that shows clips hides
\* the picker, gives the focus back to the window focused at open, selects
\* searches[current_choice], makes the setter the owner of PRIMARY and of
\* no other selection and, unless Ctrl is held, sends a press and then a
\* release of Shift+Insert to the window focused at open, in this order;
\* it returns CloseWindow.
C16_Commit ==
    [][(ClosedBy("Return") /\ window[1].searches # <<>>) =>
         LET w == window[1]
         IN  /\ w.current_choice < Len(w.searches)
             /\ Len(xlog') = IF w.ctrl THEN 4 ELSE 6
             /\ xlog'[1].req = "UnmapWindow" /\ xlog'[1].window = "picker"
             /\ xlog'[2].req = "SetInputFocus"
             /\ xlog'[2].window = w.focused_window
             /\ xlog'[3].req = "select_clip"
             /\ xlog'[4].req = "SetSelectionOwner"
             /\ xlog'[4].window = "setter"
             /\ xlog'[4].selection = "PRIMARY"
             /\ ~w.ctrl =>
                   /\ \A k \in {5, 6} :
                         /\ xlog'[k].req = "SendEvent"
                         /\ xlog'[k].window = w.focused_window
                         /\ xlog'[k].event.detail = KEY_INSERT
                         /\ xlog'[k].event.state = "SHIFT"
                   /\ xlog'[5].event.type = "KeyPress"
                   /\ xlog'[6].event.type = "KeyRelease"
             /\ selection' = Some(w.searches[w.current_choice + 1])
             /\ owner' = [owner EXCEPT !["PRIMARY"] = "setter"]
             /\ focus' = w.focused_window
             /\ action' = "CloseWindow"]_vars

\* Return has committed a clip that is not the newest, without Ctrl, after
\* the picker was opened over the terminal.
C16_Witness ==
    /\ window = None
    /\ wev = KeyEvent("KeyPress", "Return")
    /\ action = "CloseWindow"
    /\ Len(xlog) = 6
    /\ focus = "terminal"
    /\ selection # None
    /\ selection # Some(Back(clips))

\* The step is the event loop's receipt of a message.
Receives(message) ==
    chan # <<>> /\ Head(chan) = message /\ Len(chan') < Len(chan)

\* C17: a Show received while a picker is open creates no window and
\* leaves the picker (its input, searches, current_choice and focused
\* window) as it is; a Show received while none is open creates one.
C17_ShowOnce ==
    [][Receives("Show") =>
         IF window # None
         THEN /\ window' = window
              /\ focus' = focus
              /\ Requests(xlog', "CreateWindow") = {}
         ELSE /\ window' # None
              /\ Cardinality(Requests(xlog', "CreateWindow")) = 1]_vars

\* A Show has just been received by a loop whose picker has an input typed
\* into it and a choice moved down.
C17_Witness ==
    /\ msg = Received("Show", "Show")
    /\ window # None
    /\ window[1].input # <<>>
    /\ window[1].current_choice > 0
    /\ xlog = <<>>

\* C18 (control plane): a call of a verb puts one message of its kind at
\* the back of the channel; the event loop takes the messages from the
\* front, and an arm of its match acts on the message, whatever its kind.
C18_ControlPlane ==
    [][/\ Len(chan') > Len(chan) =>
             /\ Len(chan') = Len(chan) + 1
             /\ SubSeq(chan', 1, Len(chan)) = chan
             /\ \/ verb' = "show" /\ chan'[Len(chan')] = "Show"
                \/ verb' = "pause" /\ chan'[Len(chan')] = "Pause"
                \/ verb' = "start" /\ chan'[Len(chan')] = "Start"
       /\ Len(chan') < Len(chan) =>
             /\ chan' = Tail(chan)
             /\ msg'.message = Head(chan)
             /\ msg'.arm = Head(chan)]_vars

\* C21: select is one critical section: once a task's select has found
\* the clip at its index, the next call to take effect is the write of
\* that select, and the clip a select writes is the clip at its index when
\* it writes.
C21_SelectAtomic ==
    [][/\ (selecting # None /\ selecting[1].found # None) => op' = "select"
       /\ (op' = "select" /\ resBool')
             => selection' = AtIn(clips, start_idx, argIdx'[1])]_vars

\* C22: the selection is unset or a clip that an earlier add_clip pushed
\* onto the ring, also when the picker selected it from its snapshot and
\* when the ring has evicted it.
C22_SelectionAdmitted == selection = None \/ selection[1] \in admitted

\* The picker has just selected, from its snapshot, a clip that the ring
\* had already evicted.
C22_Witness ==
    /\ op = "select_clip"
    /\ wev = KeyEvent("KeyPress", "Return")
    /\ selection = argClip
    /\ start_idx > 0
    /\ \A k \in 1..Len(clips) : clips[k] # selection[1]

\* The positions in the queue of the events that answer a conversion: the
\* SelectionNotify of the owner or of the server and, for a conversion of
\* a selection the setter owns, the SelectionRequest the daemon answers
\* itself.
Answers ==
    {k \in 1..Len(xq) : xq[k].type \in {"SelectionNotify", "SelectionRequest"}}

\* The number of conversions in flight for a property: asked of a client
\* or answered with the answer still in the queue.
InFlight(property) ==
    Cardinality({c \in converts : c.property = property})
        + Cardinality({k \in Answers : xq[k].property = property})

\* C23: each key of the table belongs to exactly one conversion in flight
\* (a refusal in the queue, which names no property, may belong to any
\* key).
C23_KeysInFlight ==
    \A e \in get_states :
        \/ InFlight(e.key) = 1
        \/ \E k \in Answers : xq[k].property = NoAtom

\* C24: the table never holds more entries than there are conversions
\* that have not been answered by a SelectionNotify the engine has handled.
C24_TableBounded ==
    Cardinality(get_states) <= Cardinality(converts) + Cardinality(Answers)

\* The step is a call of Clipboard::handle_event with a SelectionNotify
\* whose property is the key of an entry of the kind.
HandlesEntry(kind) ==
    /\ Handles("SelectionNotify")
    /\ \E e \in get_states : e.key = Head(xq).property /\ e.kind = kind

\* source_of: the source named after a selection.
SourceOf(sel) ==
    CASE sel = "PRIMARY" -> "Primary"
      [] sel = "SECONDARY" -> "Secondary"
      [] sel = "CLIPBOARD" -> "Clipboard"

\* C25: the clip added from the reply of a GetText entry has the source of
\* the selection the text came from.
C25_SourceOfSelection ==
    [][HandlesEntry("GetText")
          => /\ op' = "add_clip"
             /\ argClip'[1].source = SourceOf(Head(xq).selection)]_vars

\* C26: the handler of an XfixesSelectionNotify whose owner is the setter
\* adds no entry, sends no ConvertSelection and calls nothing of the
\* database; with another owner it adds exactly one GetTargets entry, at a
\* property that was no key, and sends exactly one ConvertSelection, of
\* the selection of the event to TARGETS at that property.
C26_OwnWritesFiltered ==
    [][Handles("XfixesSelectionNotify") =>
         IF Head(xq).owner = "setter"
         THEN /\ get_states' = get_states
              /\ Requests(xlog', "ConvertSelection") = {}
              /\ UNCHANGED dbVars
         ELSE /\ \E p \in {RepeatAtoms[n] : n \in 1..Len(RepeatAtoms)}
                         \ Keys(get_states) :
                    /\ get_states' = get_states
                          \cup {[key |-> p, kind |-> "GetTargets", property |-> p]}
                    /\ \A k \in Requests(xlog', "ConvertSelection") :
                          /\ xlog'[k].window = "getter"
                          /\ xlog'[k].selection = Head(xq).selection
                          /\ xlog'[k].target = "TARGETS"
                          /\ xlog'[k].property = p
              /\ Cardinality(Requests(xlog', "ConvertSelection")) = 1
              /\ UNCHANGED dbVars]_vars

\* The event of the setter becoming the owner of PRIMARY has just been
\* handled while a transaction of a client's selection was outstanding.
C26_Witness ==
    /\ ev.type = "XfixesSelectionNotify"
    /\ ev.owner = "setter"
    /\ owner["PRIMARY"] = "setter"
    /\ xlog = <<>>
    /\ Cardinality(get_states) > Len(SELECTIONS)

\* C27: when the reply read for a GetTargets entry does not list
\* UTF8_STRING, the handler removes the entry and nothing else, adds no
\* entry, sends no ConvertSelection and calls nothing of the database.
C27_NoTextNoCapture ==
    [][(/\ HandlesEntry("GetTargets")
        /\ LET names == Properties(PropValue(getter_props, Head(xq).property))
           IN  \A k \in 1..Len(names) : names[k] # "UTF8_STRING")
          => /\ get_states' = {e \in get_states : e.key # Head(xq).property}
             /\ Requests(xlog', "ConvertSelection") = {}
             /\ UNCHANGED dbVars]_vars

\* The list of targets of a CLIPBOARD owner with an image and no text has
\* just been handled.
C27_Witness ==
    /\ ev.type = "SelectionNotify"
    /\ ev.selection = "CLIPBOARD"
    /\ ev.target = "TARGETS"
    /\ ev.property # NoAtom
    /\ ev.property \notin Keys(get_states)
    /\ offer["CLIPBOARD"].targets = <<"STRING", "image/png">>
    /\ Len(xlog) = 2
    /\ ~err

\* C29: the handler of a SelectionNotify leaves every entry with another
\* key than the property of the event as it is and adds at most one entry;
\* the text it passes to add_clip for a GetText entry is the text of the
\* owner of the selection of the event (or what the daemon serves itself),
\* whatever other transactions are outstanding and whichever was answered
\* first.
C29_Interleaving ==
    [][Handles("SelectionNotify") =>
         /\ \A e \in get_states : e.key # Head(xq).property => e \in get_states'
         /\ Cardinality(get_states' \ get_states) <= 1
         /\ HandlesEntry("GetText") =>
               /\ op' = "add_clip"
               /\ argClip'[1].contents
                     \in {offer[Head(xq).selection].text, <<"n", "/", "a">>}]_vars

\* The text of a transaction has been added while a transaction issued
\* before it, for another selection, is still outstanding.
C29_Witness ==
    /\ ev.type = "SelectionNotify"
    /\ ev.property = RepeatAtoms[Len(SELECTIONS) + 2]
    /\ op = "add_clip"
    /\ argClip[1].contents = offer[ev.selection].text
    /\ RepeatAtoms[Len(SELECTIONS) + 1] \in Keys(get_states)
    /\ ev.property \notin Keys(get_states)
    /\ \E c \in converts : c.property = RepeatAtoms[Len(SELECTIONS) + 1]
                              /\ c.selection # ev.selection

\* C28: when a request fails while the engine handles the SelectionNotify
\* of a GetTargets or GetText entry, the handler has removed the entry, has
\* added no entry and has left the history as it was.
C28_FaultDropsTransaction ==
    [][((HandlesEntry("GetTargets") \/ HandlesEntry("GetText")) /\ err')
          => /\ get_states' = {e \in get_states : e.key # Head(xq).property}
             /\ UNCHANGED <<clips, start_idx, selection>>]_vars

\* C30: a TARGETS SelectionRequest handled while no selection is set is
\* answered with one ChangeProperty of sr.property on sr.requestor, of type
\* ATOM and format 32, with no element.
C30_EmptyTargets ==
    [][(Handles("SelectionRequest") /\ Head(xq).target = "TARGETS"
            /\ selection = None)
          => /\ Cardinality(Requests(xlog', "ChangePropertyReplace")) = 1
             /\ \A k \in Requests(xlog', "ChangePropertyReplace") :
                   /\ xlog'[k].window = Head(xq).requestor
                   /\ xlog'[k].property = Head(xq).property
                   /\ xlog'[k].type = "ATOM"
                   /\ xlog'[k].format = 32
                   /\ xlog'[k].nitems = 0
                   /\ xlog'[k].data = <<>>]_vars

\* C31: a UTF8_STRING SelectionRequest is answered with one ChangeProperty
\* in REPLACE mode of sr.property on sr.requestor, of type UTF8_STRING and
\* format 8, whose data are the bytes of the contents of the selection at
\* the time of the request, or the bytes of "n/a" when no selection is
\* set, and whose length is the number of those bytes.
C31_TextServed ==
    [][(Handles("SelectionRequest") /\ Head(xq).target = "UTF8_STRING")
          => /\ Cardinality(Requests(xlog', "ChangePropertyReplace")) = 1
             /\ \A k \in Requests(xlog', "ChangePropertyReplace") :
                   /\ xlog'[k].window = Head(xq).requestor
                   /\ xlog'[k].property = Head(xq).property
                   /\ xlog'[k].type = "UTF8_STRING"
                   /\ xlog'[k].format = 8
                   /\ xlog'[k].nitems = Len(xlog'[k].data)
                   /\ IF selection = None
                      THEN xlog'[k].data = <<110, 47, 97>>
                      ELSE /\ Len(xlog'[k].data) = Len(selection[1].contents)
                           /\ FromUtf8Lossy(xlog'[k].data) = selection[1].contents]_vars

\* A client has been served the text of a selection that is not the newest
\* clip of the ring.
C31_Witness ==
    /\ ev.type = "SelectionRequest"
    /\ ev.target = "UTF8_STRING"
    /\ ev.requestor = "client"
    /\ ~err
    /\ selection # None
    /\ selection[1] # clips[Len(clips)]
    /\ \E k \in 1..Len(xlog) :
          /\ xlog[k].req = "ChangePropertyReplace"
          /\ FromUtf8Lossy(xlog[k].data) = selection[1].contents

\* C32: the handler of a SelectionRequest whose target is neither TARGETS
\* nor UTF8_STRING changes and deletes no property, leaves the engine and
\* the history as they were, and sends the one SelectionNotify of the
\* request to the requestor.
C32_UnsupportedTarget ==
    [][(Handles("SelectionRequest")
            /\ Head(xq).target \notin {"TARGETS", "UTF8_STRING"})
          => /\ \A k \in 1..Len(xlog') : xlog'[k].req = "SendEvent"
             /\ Len(xlog') = 1
             /\ xlog'[1].window = Head(xq).requestor
             /\ xlog'[1].event = SelectionNotify(Head(xq).requestor,
                                                 Head(xq).selection,
                                                 Head(xq).target,
                                                 Head(xq).property)
             /\ ~err'
             /\ UNCHANGED <<get_states, getter_props, converts, owner>>
             /\ UNCHANGED <<clips, start_idx, selection>>]_vars

\* A client's request for STRING has been handled while a selection is set.
C32_Witness ==
    /\ ev.type = "SelectionRequest"
    /\ ev.target = "STRING"
    /\ ev.requestor = "client"
    /\ selection # None
    /\ Len(xlog) = 1
    /\ xlog[1].req = "SendEvent"

\* C33: while a picker is open its current_choice is 0 when searches is
\* empty and below the length of searches otherwise, and no key makes the
\* daemon panic on an arithmetic overflow.
C33_ChoiceInRange ==
    /\ action # "Panic"
    /\ window # None =>
          IF window[1].searches = <<>>
          THEN window[1].current_choice = 0
          ELSE window[1].current_choice < Len(window[1].searches)

\* The step is the event loop's call of Window::handle_event of the open
\* picker with a press of the key.
Presses(sym) ==
    /\ window # None
    /\ wev' = KeyEvent("KeyPress", sym)
    /\ chan' = chan

\* C34: Escape pressed in any state of the picker, and Return pressed while
\* searches is empty, hide the picker, give the focus back to the window
\* focused at open and return CloseWindow; they send no other request (no
\* SetSelectionOwner, no key event) and leave the selection, the owners of
\* the selections and the ring as they were.
C34_CloseWithoutCommit ==
    [][(\/ Presses("Escape")
        \/ Presses("Return") /\ window[1].searches = <<>>)
          => /\ action' = "CloseWindow"
             /\ window' = None
             /\ xlog' = <<UnmapWindow("picker"),
                          SetInputFocus(window[1].focused_window)>>
             /\ focus' = window[1].focused_window
             /\ UNCHANGED <<selection, owner, clips, start_idx, xq>>]_vars

\* Return has closed a picker opened over the terminal whose input matched
\* no clip.
C34_Witness ==
    /\ window = None
    /\ wev = KeyEvent("KeyPress", "Return")
    /\ action = "CloseWindow"
    /\ Len(xlog) = 2
    /\ focus = "terminal"
    /\ selection = None

\* C35: an iteration of the event loop that takes an X11 event from the
\* queue calls the picker with it when one is open, and calls the
\* selection engine with it: the engine skips no event.
C35_PickerThenEngine ==
    [][(xq # <<>> /\ xq' = Tail(xq))
          => /\ window # None => wev' = Head(xq)
             /\ ev' = Head(xq)]_vars

====
